---- MODULE Spec2Model ----
(***************************************************************************)
(* A model of src/app.py: the volunteer / news / admin backend.            *)
(*                                                                         *)
(* The document store holds three collections (volunteers, news,          *)
(* audit_logs).  Requests are served concurrently, and the store is the    *)
(* only state they share; one step of the model is one store call of one   *)
(* request, together with the handler's code that runs before it.  A       *)
(* handler that makes two store calls (get_stats, export_volunteers,       *)
(* delete_volunteer, get_volunteers, add_news, delete_news) is two steps,  *)
(* and the steps of other requests run between them.  A store call either  *)
(* returns or, in a run with faults, raises; the calls made at startup     *)
(* (create_index) are among them.                                          *)
(*                                                                         *)
(* Time is counted in units of 1/UnitsPerSecond second, so that the        *)
(* truncation to whole seconds done by the token encoder and by strftime   *)
(* is visible.  The rate limiter and CORS run before the handlers and are  *)
(* not modelled: every request here is one that reaches its handler.       *)
(***************************************************************************)
EXTENDS Integers, Sequences, FiniteSets, TLC

\* ------------------------------------------------------------- bounds
MaxVolunteers == 3
MaxNews == 1
MaxAudit == 3
MaxTicks == 1
MaxLimit == 2
UnitsPerSecond == 2
\* The requests that can be between their two store calls at once.
Slots == {1, 2}

\* ------------------------------------------------- program constants
TokenHours == 2
DefaultPage == 1
DefaultLimit == 10
ADMIN_USERNAME == "admin"
ADMIN_PASSWORD == "s3cret"
HourLen == 60 * 60 * UnitsPerSecond
DayLen == 24 * HourLen
TokenLifetime == TokenHours * HourLen

\* The first instant of a run: the last clock unit before a UTC midnight
\* (a fractional second when UnitsPerSecond > 1).
StartTime == DayLen - 1
\* The instants at which the clock is read: around the start, and around
\* the expiry of a token issued at the start.
EarlyInstants == {StartTime + k : k \in 0..MaxTicks}
Instants ==
    EarlyInstants \cup {StartTime + TokenLifetime - 2 + k : k \in 0..MaxTicks}

\* ---------------------------------------------------------- strings
\* Text values are sequences of one-character strings.
NameA == <<"A">>
EmailA == <<"a", "@", "x", ".", "c">>
EmailB == <<"b", "@", "x", ".", "c">>
EmailBad == <<"n", "o", "t", "-", "a", "n", "-", "e", "m", "a", "i", "l">>
Phone10 == <<"9", "8", "7", "6", "5", "4", "3", "2", "1", "0">>
Phone12 == <<"9", "1", "9", "8", "7", "6", "5", "4", "3", "2", "1", "0">>
PhoneBad == <<"1", "2", "3", "4", "5">>
EmptyText == <<>>
SearchX == <<"x">>
TitleT == <<"T">>
ContentC == <<"C">>
ImageI == <<"I">>

\* A JSON request body is a dictionary: a function from its keys to text.
\* The empty dictionary (and a null body) is falsy in Python.
EmptyBody == [k \in {} |-> EmptyText]
\* dict.get(k, default)
Get(data, k, default) == IF k \in DOMAIN data THEN data[k] ELSE default
\* `not data.get(k)`: the key is absent or its value is empty
Blank(data, k) == Get(data, k, EmptyText) = EmptyText

\* -------------------------------------------------------------- time
\* datetime.datetime(now.year, now.month, now.day): midnight of now's day
start_of_day(t) == (t \div DayLen) * DayLen
\* strftime("%Y-%m-%d %H:%M:%S"): the instant cut to whole seconds
strftime(t) == t \div UnitsPerSecond

\* ------------------------------------------------------------ tokens
EmptyTok == [fmt |-> "empty", user |-> "", exp |-> 0, sig |-> FALSE]
JunkTok == [fmt |-> "junk", user |-> "", exp |-> 0, sig |-> FALSE]
\* A well-formed token signed with another key, expiry far in the future.
ForgedTok ==
    [fmt |-> "jwt", user |-> ADMIN_USERNAME,
     exp |-> (StartTime + 3 * TokenLifetime) \div UnitsPerSecond, sig |-> FALSE]

\* jwt.encode (PyJWT 2): a datetime claim is written as whole seconds since
\* the epoch (timegm(utctimetuple()), which drops the fraction of a second).
jwt_encode(user, expires) ==
    [fmt |-> "jwt", user |-> user, exp |-> expires \div UnitsPerSecond, sig |-> TRUE]

\* A decoder that still accepts a token at the instant of its expiry.
jwt_decode_late(token, t) ==
    IF token.fmt # "jwt" \/ ~token.sig THEN "invalid"
    ELSE IF token.exp * UnitsPerSecond < t THEN "expired"
    ELSE "ok"

\* jwt.decode(token, SECRET_KEY, algorithms=["HS256"]) at instant t: format
\* and signature first (InvalidTokenError), then the exp claim against the
\* clock (ExpiredSignatureError when exp <= now).
jwt_decode(token, t) ==
    IF token.fmt # "jwt" \/ ~token.sig THEN "invalid"
    ELSE IF token.exp * UnitsPerSecond <= t THEN "expired"
    ELSE "ok"

AbsentHeader == [scheme |-> "absent", token |-> EmptyTok]
BasicHeader == [scheme |-> "Basic", token |-> JunkTok]
Bearer(tok) == [scheme |-> "Bearer", token |-> tok]

\* A decorator that lets a request without a token through.
token_required_lax(header, t) ==
    LET token == IF header.scheme = "Bearer" THEN header.token ELSE EmptyTok
    IN  IF token.fmt = "empty" THEN "ok"
        ELSE jwt_decode(token, t)

\* The decorator's verdict on a request's Authorization header at instant t.
token_required(header, t) ==
    LET token == IF header.scheme = "Bearer" THEN header.token ELSE EmptyTok
    IN  IF token.fmt = "empty" THEN "missing"
        ELSE jwt_decode(token, t)

AuthMessage(verdict) ==
    CASE verdict = "missing" -> "Token is missing!"
      [] verdict = "expired" -> "Token has expired!"
      [] OTHER -> "Invalid token!"


\* ------------------------------------------------------------- state
VARIABLES
    now,          \* the UTC clock (datetime.utcnow())
    indexes,      \* the unique indexes that exist on volunteers
    volunteers,   \* mongo.db.volunteers
    news,         \* mongo.db.news
    audit_logs,   \* mongo.db.audit_logs, in insertion order
    nextId,       \* the next _id the store assigns in volunteers
    nextNewsId,   \* the next _id the store assigns in news
    client,       \* the token the admin client holds, and when it was issued
    pc,           \* each in-flight request's position: the store call it is before
    local,        \* each in-flight request's local variables
    last,         \* the event observed last: a response, or a handler going on
    listed,       \* the page listed last, no write to volunteers since its count
    faults        \* whether store calls may raise in this run

vars ==
    <<now, indexes, volunteers, news, audit_logs, nextId, nextNewsId, client,
      pc, local, last, listed, faults>>

\* The outcomes of one store call: it returns, or (in a run with faults) raises.
Outcomes == IF faults THEN BOOLEAN ELSE {TRUE}

\* ------------------------------------------------------------- store
\* A store with the unique index on email alone.
DuplicateKey_email_only(coll, doc) ==
    \E v \in coll : v.email = doc.email

\* insert_one raises DuplicateKeyError when a document of the collection
\* holds the same value in a field that has a unique index.
DuplicateKey(coll, doc) ==
    \E v \in coll : \E k \in indexes : v[k] = doc[k]

\* The try block at startup: create_index("email"), then
\* create_index("phone"); the first call that raises ends the block, and the
\* application serves with the indexes created so far.
StartupIndexes ==
    IF faults THEN {{}, {"email"}, {"email", "phone"}}
    ELSE {{"email", "phone"}}

\* sort("registered_at", -1) compares the one key: v may come before w.
Newer(v, w) == v.registered_at >= w.registered_at

\* find().sort("registered_at", -1): the orders in which a query may return
\* the documents, newest first.  The sort has no second key, and the store
\* leaves the order of documents with the same registered_at open, query by
\* query.
SortDesc(coll) ==
    {seq \in [1..Cardinality(coll) -> coll] :
        /\ \A i, j \in DOMAIN seq : i < j => seq[i] # seq[j] /\ Newer(seq[i], seq[j])}

\* A total that counts only the records older than the given day.
CountBefore(coll, day) == Cardinality({v \in coll : v.registered_at < day})

\* count_documents({}) and count_documents({"registered_at": {"$gte": since}})
CountAll(coll) == Cardinality(coll)
CountSince(coll, since) == Cardinality({v \in coll : v.registered_at >= since})

\* log_audit's insert_one: the entry appended, or nothing when the insert
\* raises (ok = FALSE).
log_audit(logs, action, details, t, ok) ==
    IF ok
    THEN Append(logs, [action |-> action, details |-> details,
                       admin |-> ADMIN_USERNAME, timestamp |-> t])
    ELSE logs

\* ObjectId(id): a path parameter is text; it parses when it is 24
\* hexadecimal digits (hex), and then names the _id oid; otherwise
\* ObjectId raises InvalidId.
BadId == [hex |-> FALSE, oid |-> 0]
HexId(n) == [hex |-> TRUE, oid |-> n]
ObjectIdParses(id) == id.hex

\* cursor.skip(skip).limit(limit) over the sorted result; limit 0 is no limit.
RECURSIVE Drop(_, _)
Drop(s, n) == IF n = 0 \/ s = <<>> THEN s ELSE Drop(Tail(s), n - 1)
RECURSIVE Take(_, _)
Take(s, n) == IF n = 0 \/ s = <<>> THEN <<>> ELSE <<Head(s)>> \o Take(Tail(s), n - 1)
skip_limit(sorted, skip, limit) ==
    IF limit = 0 THEN Drop(sorted, skip) ELSE Take(Drop(sorted, skip), limit)

\* {"$regex": search, "$options": "i"}: the text occurs in the field,
\* letter case ignored.
Lower(c) == IF c = "A" THEN "a" ELSE IF c = "T" THEN "t" ELSE IF c = "C" THEN "c" ELSE c
Occurs(pat, text) ==
    \E i \in 0..(Len(text) - Len(pat)) :
        \A j \in 1..Len(pat) : Lower(text[i + j]) = Lower(pat[j])
Matches(v, search) ==
    \/ search = EmptyText
    \/ Occurs(search, v.name) \/ Occurs(search, v.email) \/ Occurs(search, v.phone)

\* A log_audit without its except clause.
AuditRaises_uncaught(ok) == ~ok

\* Whether a failed audit insert propagates to the handler: log_audit
\* catches every Exception and only logs it.
AuditRaises(ok) == FALSE

\* ------------------------------------------------- requests in flight
NoArg == [none |-> TRUE]
\* A handler's local variables between its two store calls: its arguments,
\* the first count (total) and the start of the day (since), whether its
\* audit insert was made or failed; and, for the record, whether a document
\* was inserted in (grown) or removed from (shrunk) volunteers since its
\* first call.
NoLocal ==
    [arg |-> NoArg, total |-> 0, since |-> 0, grown |-> FALSE, shrunk |-> FALSE,
     audited |-> FALSE, auditFailed |-> FALSE]

\* A request starts in the lowest slot that is idle.
Free(s) == pc[s] = "idle" /\ \A r \in Slots : r < s => pc[r] # "idle"

\* The requests whose audit insert is still to come.
PendingAudits ==
    Cardinality({s \in Slots :
                    pc[s] \in {"delete_audit", "add_news_audit", "delete_news_audit"}})
\* The model's bounds on the store's growth.
Room == Len(audit_logs) + PendingAudits < MaxAudit
Bounded ==
    /\ nextId <= MaxVolunteers + 1
    /\ nextNewsId <= MaxNews + 1

\* The locals of the requests that read volunteers twice, after a write of
\* another request: g when a document was inserted, sh when one was removed.
Mark(g, sh) ==
    [s \in Slots |->
        IF pc[s] \in {"stats_today", "list_find"}
        THEN [local[s] EXCEPT !.grown = @ \/ g, !.shrunk = @ \/ sh]
        ELSE local[s]]

Store == [volunteers |-> volunteers, news |-> news, audit_logs |-> audit_logs]
\* No page listed since the last write.
NoPage == [page |-> 0, limit |-> 0, ids |-> <<>>]
NoObs ==
    [route |-> "none", code |-> 0, header |-> AbsentHeader, at |-> 0, ops |-> 0,
     audited |-> FALSE, auditFailed |-> FALSE, arg |-> NoArg, out |-> NoArg,
     slot |-> 0, grown |-> FALSE, shrunk |-> FALSE, prev |-> NoPage,
     before |-> [volunteers |-> {}, news |-> {}, audit_logs |-> <<>>]]

\* What is observed of a step of a request: its route (route_done for the
\* step after the second store call), its header and arguments, the instant,
\* the status code (0: the handler goes on to its second store call), the
\* body, the store calls made so far, whether the request wrote an audit
\* entry or failed to, its slot and locals, the page listed before it, and
\* the store before the step.
Obs(route, header, arg, s, loc, r) ==
    [route |-> route, code |-> r.code, header |-> header, at |-> now,
     ops |-> r.ops, audited |-> r.audited, auditFailed |-> r.auditFailed,
     arg |-> arg, out |-> r.out, slot |-> s, grown |-> loc.grown,
     shrunk |-> loc.shrunk, prev |-> listed, before |-> Store]

Message(m) == [message |-> m]
\* A step's result that touches nothing.
Plain(code, out, ops) ==
    [code |-> code, out |-> out, ops |-> ops, audited |-> FALSE,
     auditFailed |-> FALSE, volunteers |-> volunteers, news |-> news,
     logs |-> audit_logs]
\* The result of a step after an audit insert made before it.
After(loc, r) ==
    [r EXCEPT !.audited = loc.audited, !.auditFailed = loc.auditFailed]
Unauthorized(verdict) == Plain(401, Message(AuthMessage(verdict)), 0)

\* The Authorization headers a client can send: none, another scheme, a
\* string that is no token, a token signed with another key, the token it holds.
Headers ==
    {AbsentHeader, BasicHeader, Bearer(JunkTok), Bearer(ForgedTok),
     Bearer(client.token)}

InitState ==
    /\ now = StartTime
    /\ indexes \in StartupIndexes
    /\ volunteers = {}
    /\ news = {}
    /\ audit_logs = <<>>
    /\ nextId = 1
    /\ nextNewsId = 1
    /\ client = [token |-> EmptyTok, issued |-> 0]
    /\ pc = [s \in Slots |-> "idle"]
    /\ local = [s \in Slots |-> NoLocal]
    /\ last = NoObs
    /\ listed = NoPage

Init == faults = FALSE /\ InitState
InitFault == faults = TRUE /\ InitState

\* Time passes: the clock moves on to a later instant of T.
Tick(T) ==
    /\ last = NoObs
    /\ \E t \in T : t > now /\ now' = t
    /\ UNCHANGED <<indexes, volunteers, news, audit_logs, nextId, nextNewsId,
                   client, pc, local, last, faults, listed>>

\* The observed event is consumed.
Deliver ==
    /\ last # NoObs
    /\ last' = NoObs
    /\ UNCHANGED <<now, indexes, volunteers, news, audit_logs, nextId,
                   nextNewsId, client, pc, local, faults, listed>>

\* A request goes on to its second store call (the step's code is 0), or
\* has answered and leaves no trace.
Goes(s, r, to, loc) ==
    /\ pc' = IF r.code = 0 THEN [pc EXCEPT ![s] = to] ELSE pc
    /\ local' = IF r.code = 0 THEN [Mark(FALSE, r.volunteers # volunteers)
                                       EXCEPT ![s] = loc]
                 ELSE local
\* A request has made its second store call and answers.
Ends(s) ==
    /\ pc' = [pc EXCEPT ![s] = "idle"]
    /\ local' = [local EXCEPT ![s] = NoLocal]

\* ------------------------------------------- POST /api/admin/login
GoodLogin ==
    [k \in {"username", "password"} |->
        IF k = "username" THEN <<ADMIN_USERNAME>> ELSE <<ADMIN_PASSWORD>>]
LoginBodies ==
    {EmptyBody,
     [k \in {"username"} |-> <<ADMIN_USERNAME>>],
     [k \in {"username", "password"} |->
         IF k = "username" THEN <<ADMIN_USERNAME>> ELSE <<"wrong">>],
     GoodLogin}

Credentials == [username |-> <<ADMIN_USERNAME>>, password |-> <<ADMIN_PASSWORD>>]

\* The handler's result: the response and the audit log after it; okAudit
\* is the outcome of the audit insert, its only store call.
admin_login_result(data, t, okAudit) ==
    IF data = EmptyBody \/ Blank(data, "username") \/ Blank(data, "password")
    THEN Plain(400, Message("Missing credentials"), 0)
    ELSE IF data["username"] = Credentials.username
              /\ data["password"] = Credentials.password
    THEN IF AuditRaises(okAudit)
         THEN [Plain(500, Message("error"), 1) EXCEPT !.auditFailed = TRUE]
         ELSE [Plain(200, [token |-> jwt_encode(ADMIN_USERNAME, t + TokenLifetime)], 1)
                 EXCEPT !.audited = okAudit, !.auditFailed = ~okAudit,
                        !.logs = log_audit(audit_logs, "LOGIN", <<"login">>, t, okAudit)]
    ELSE Plain(401, Message("Invalid credentials"), 0)

admin_login(data) ==
    /\ last = NoObs
    /\ Room
    /\ \E okAudit \in Outcomes :
         LET r == admin_login_result(data, now, okAudit) IN
         /\ audit_logs' = r.logs
         /\ client' = IF r.code = 200
                      THEN [token |-> r.out.token, issued |-> now]
                      ELSE client
         /\ last' = Obs("login", AbsentHeader, [data |-> data], 0, NoLocal, r)
    /\ UNCHANGED <<now, indexes, volunteers, news, nextId, nextNewsId, pc,
                   local, faults, listed>>

\* ------------------------------------- POST /api/register-volunteer
FullBody(e, ph) ==
    [k \in {"name", "email", "phone"} |->
        CASE k = "name" -> NameA [] k = "email" -> e [] OTHER -> ph]
RegisterBodies ==
    {EmptyBody,
     [k \in {"name", "email"} |-> IF k = "name" THEN NameA ELSE EmailA],
     FullBody(EmailA, Phone10), FullBody(EmailB, Phone12),
     FullBody(EmailBad, PhoneBad), FullBody(EmailA, Phone12),
     [k \in {"name", "email", "phone", "message"} |->
        CASE k = "name" -> NameA [] k = "email" -> EmailB
          [] k = "phone" -> Phone10 [] OTHER -> <<"h", "i">>]}

\* Bodies that do not collide with one another.
DistinctBodies ==
    {FullBody(EmailA, Phone10), FullBody(EmailB, Phone12),
     FullBody(EmailBad, PhoneBad)}

\* The handler has one store call, insert_one.
register_volunteer_result(data, t, ok) ==
    IF data = EmptyBody \/ ~({"name", "email", "phone"} \subseteq DOMAIN data)
    THEN Plain(400, Message("Missing fields"), 0)
    ELSE LET doc == [id |-> nextId, name |-> data["name"],
                     email |-> data["email"], phone |-> data["phone"],
                     message |-> Get(data, "message", EmptyText),
                     registered_at |-> t]
         IN  IF ~ok THEN Plain(500, Message("error"), 1)
             ELSE IF DuplicateKey(volunteers, doc)
             THEN Plain(409, Message("Email/Phone already exists"), 1)
             ELSE [Plain(201, Message("Registered!"), 1)
                     EXCEPT !.volunteers = volunteers \cup {doc}]

register_volunteer(data) ==
    /\ last = NoObs
    /\ \E ok \in Outcomes :
         LET r == register_volunteer_result(data, now, ok) IN
         /\ volunteers' = r.volunteers
         /\ nextId' = IF r.code = 201 THEN nextId + 1 ELSE nextId
         /\ local' = Mark(r.code = 201, FALSE)
         /\ listed' = IF r.code = 201 THEN NoPage ELSE listed
         /\ last' = Obs("register", AbsentHeader, [data |-> data], 0, NoLocal, r)
    /\ UNCHANGED <<now, indexes, news, audit_logs, nextNewsId, client, pc, faults>>
    /\ Bounded'

\* The decorator: the handler's result r when the header's token is
\* accepted at this instant, the 401 response otherwise.
Protected(header, r) ==
    LET verdict == token_required(header, now)
    IN  IF verdict = "ok" THEN r ELSE Unauthorized(verdict)

\* --------------------------------------------- GET /api/admin/stats
\* A total taken with the filter of the other count, inverted.
stats_total_before_today(coll) == CountBefore(coll, start_of_day(now))
\* total = count_documents({})
stats_total(coll) == CountAll(coll)

\* Up to the first count: the start of the day, then total.
get_stats_first(okTotal) ==
    IF ~okTotal THEN Plain(500, Message("error"), 1)
    ELSE Plain(0, [total |-> stats_total(volunteers), since |-> start_of_day(now)], 1)

get_stats_begin(s, header) ==
    /\ last = NoObs
    /\ Free(s)
    /\ \E okTotal \in Outcomes :
         LET r == Protected(header, get_stats_first(okTotal)) IN
         /\ last' = Obs("stats", header, NoArg, s, NoLocal, r)
         /\ Goes(s, r, "stats_today",
                 [NoLocal EXCEPT !.total = r.out.total, !.since = r.out.since])
    /\ UNCHANGED <<now, indexes, volunteers, news, audit_logs, nextId,
                   nextNewsId, client, faults, listed>>

\* The second count, and the response.
get_stats_second(loc, okToday) ==
    IF ~okToday THEN Plain(500, Message("error"), 2)
    ELSE Plain(200, [total |-> loc.total,
                     today |-> CountSince(volunteers, loc.since)], 2)

get_stats_finish(s) ==
    /\ last = NoObs
    /\ pc[s] = "stats_today"
    /\ \E okToday \in Outcomes :
         last' = Obs("stats_done", AbsentHeader, NoArg, s, local[s],
                     get_stats_second(local[s], okToday))
    /\ Ends(s)
    /\ UNCHANGED <<now, indexes, volunteers, news, audit_logs, nextId,
                   nextNewsId, client, faults, listed>>

\* ----------------------------------------- GET /api/volunteers/export
CsvHeader == <<"Registered At", "Name", "Email", "Phone", "Message">>
CsvRow(v) == <<strftime(v.registered_at), v.name, v.email, v.phone, v.message>>
\* An export that sorts oldest first.
csv_rows_oldest_first(sorted) ==
    LET n == Len(sorted)
    IN  [header |-> CsvHeader, rows |-> [i \in 1..n |-> CsvRow(sorted[n + 1 - i])]]

\* The rows written: the header, then one row per document of the cursor,
\* in the order the cursor returns them.
csv_rows(sorted) ==
    [header |-> CsvHeader, rows |-> [i \in 1..Len(sorted) |-> CsvRow(sorted[i])]]

\* The first store call of the handler is log_audit's insert.
export_volunteers_log(okAudit) ==
    IF AuditRaises(okAudit)
    THEN [Plain(500, Message("error"), 1) EXCEPT !.auditFailed = TRUE]
    ELSE [Plain(0, NoArg, 1)
            EXCEPT !.audited = okAudit, !.auditFailed = ~okAudit,
                   !.logs = log_audit(audit_logs, "EXPORT_CSV", <<"export">>,
                                      now, okAudit)]

export_volunteers_begin(s, header) ==
    /\ last = NoObs
    /\ Free(s)
    /\ Room
    /\ \E okAudit \in Outcomes :
         LET r == Protected(header, export_volunteers_log(okAudit)) IN
         /\ audit_logs' = r.logs
         /\ last' = Obs("export", header, NoArg, s, NoLocal, r)
         /\ Goes(s, r, "export_find",
                 [NoLocal EXCEPT !.audited = r.audited,
                                 !.auditFailed = r.auditFailed])
    /\ UNCHANGED <<now, indexes, volunteers, news, nextId, nextNewsId, client,
                   faults, listed>>

\* The second is the read of the cursor find().sort(...), row by row.
export_volunteers_read(loc, sorted, okFind) ==
    IF ~okFind THEN After(loc, Plain(500, Message("error"), 2))
    ELSE After(loc, Plain(200, csv_rows(sorted), 2))

export_volunteers_finish(s) ==
    /\ last = NoObs
    /\ pc[s] = "export_find"
    /\ \E okFind \in Outcomes, sorted \in SortDesc(volunteers) :
         last' = Obs("export_done", AbsentHeader, NoArg, s, local[s],
                     export_volunteers_read(local[s], sorted, okFind))
    /\ Ends(s)
    /\ UNCHANGED <<now, indexes, volunteers, news, audit_logs, nextId,
                   nextNewsId, client, faults, listed>>

\* ------------------------------------- DELETE /api/volunteers/<id>
IdArgs == {BadId} \cup {HexId(n) : n \in 1..MaxVolunteers}

\* ObjectId(id) and delete_one.
delete_volunteer_delete(id, okDelete) ==
    IF ~ObjectIdParses(id) THEN Plain(500, Message("error"), 0)
    ELSE IF ~okDelete THEN Plain(500, Message("error"), 1)
    ELSE IF \E v \in volunteers : v.id = id.oid
    THEN [Plain(0, NoArg, 1) EXCEPT !.volunteers = {v \in volunteers : v.id # id.oid}]
    ELSE Plain(404, Message("Volunteer not found"), 1)

delete_volunteer_begin(s, header, id) ==
    /\ last = NoObs
    /\ Free(s)
    /\ Room
    /\ \E okDelete \in Outcomes :
         LET r == Protected(header, delete_volunteer_delete(id, okDelete)) IN
         /\ volunteers' = r.volunteers
         /\ listed' = IF r.volunteers # volunteers THEN NoPage ELSE listed
         /\ last' = Obs("delete", header, [id |-> id], s, NoLocal, r)
         /\ Goes(s, r, "delete_audit", [NoLocal EXCEPT !.arg = [id |-> id]])
    /\ UNCHANGED <<now, indexes, news, audit_logs, nextId, nextNewsId, client,
                   faults>>

\* deleted_count was 1: log_audit, and the response.
delete_volunteer_audit(loc, okAudit) ==
    IF AuditRaises(okAudit)
    THEN [Plain(500, Message("error"), 2) EXCEPT !.auditFailed = TRUE]
    ELSE [Plain(200, Message("Volunteer deleted"), 2)
            EXCEPT !.audited = okAudit, !.auditFailed = ~okAudit,
                   !.logs = log_audit(audit_logs, "DELETE_VOLUNTEER",
                                      <<"volunteer", loc.arg.id.oid>>, now, okAudit)]

delete_volunteer_finish(s) ==
    /\ last = NoObs
    /\ pc[s] = "delete_audit"
    /\ \E okAudit \in Outcomes :
         LET r == delete_volunteer_audit(local[s], okAudit) IN
         /\ audit_logs' = r.logs
         /\ last' = Obs("delete_done", AbsentHeader, local[s].arg, s, local[s], r)
    /\ Ends(s)
    /\ UNCHANGED <<now, indexes, volunteers, news, nextId, nextNewsId, client,
                   faults, listed>>

\* --------------------------------------------- GET /api/volunteers
ListArgs ==
    [page : 1..2, limit : 1..MaxLimit, search : {EmptyText}]
        \cup {[page |-> 0, limit |-> 1, search |-> EmptyText],
              [page |-> 1, limit |-> 0, search |-> EmptyText],
              [page |-> 1, limit |-> 0, search |-> SearchX]}
\* request.args.get('page', 1), ('limit', 10), ('search', ''): a request
\* without query arguments.
ListDefault == [page |-> DefaultPage, limit |-> DefaultLimit, search |-> EmptyText]

ListItem(v) ==
    [id |-> v.id, name |-> v.name, email |-> v.email, phone |-> v.phone,
     message |-> v.message, date |-> strftime(v.registered_at)]

\* The page of the cursor find(query).sort(...).skip(skip).limit(limit),
\* the query's documents being returned in the order sorted.
find_page(sorted, page, limit) ==
    LET docs == skip_limit(sorted, (page - 1) * limit, limit)
    IN  [i \in 1..Len(docs) |-> ListItem(docs[i])]

\* The cursor is built (skip() refuses a negative number) and not read;
\* the first store call is count_documents(query).
get_volunteers_count(a, okCount) ==
    IF (a.page - 1) * a.limit < 0 THEN Plain(500, Message("Server Error"), 0)
    ELSE IF ~okCount THEN Plain(500, Message("Server Error"), 1)
    ELSE Plain(0, [total |-> CountAll({v \in volunteers : Matches(v, a.search)})], 1)

get_volunteers_begin(s, header, a) ==
    /\ last = NoObs
    /\ Free(s)
    /\ \E okCount \in Outcomes :
         LET r == Protected(header, get_volunteers_count(a, okCount)) IN
         /\ last' = Obs("list", header, a, s, NoLocal, r)
         /\ Goes(s, r, "list_find",
                 [NoLocal EXCEPT !.arg = a, !.total = r.out.total])
    /\ UNCHANGED <<now, indexes, volunteers, news, audit_logs, nextId,
                   nextNewsId, client, faults, listed>>

\* A listing answered with a page of the whole collection (no search text,
\* page and limit at least 1), no write to volunteers since its count.
Paged(loc, r) ==
    /\ r.code = 200
    /\ loc.arg.search = EmptyText /\ loc.arg.page >= 1 /\ loc.arg.limit >= 1
    /\ ~loc.grown /\ ~loc.shrunk

\* The second is the read of the cursor, and the response.
get_volunteers_find(loc, sorted, okFind) ==
    IF ~okFind THEN Plain(500, Message("Server Error"), 2)
    ELSE Plain(200,
               [volunteers |-> find_page(sorted, loc.arg.page, loc.arg.limit),
                pagination |->
                   [current_page |-> loc.arg.page, limit |-> loc.arg.limit,
                    total_records |-> loc.total]],
               2)

get_volunteers_finish(s) ==
    /\ last = NoObs
    /\ pc[s] = "list_find"
    /\ \E okFind \in Outcomes,
          sorted \in SortDesc({v \in volunteers : Matches(v, local[s].arg.search)}) :
         LET r == get_volunteers_find(local[s], sorted, okFind) IN
         /\ last' = Obs("list_done", AbsentHeader, local[s].arg, s, local[s], r)
         /\ listed' = IF Paged(local[s], r)
                       THEN [page |-> local[s].arg.page, limit |-> local[s].arg.limit,
                             ids |-> [i \in 1..Len(r.out.volunteers) |->
                                         r.out.volunteers[i].id]]
                       ELSE listed
    /\ Ends(s)
    /\ UNCHANGED <<now, indexes, volunteers, news, audit_logs, nextId,
                   nextNewsId, client, faults>>

\* ---------------------------------------------------- /api/news
NewsBodies ==
    {EmptyBody,
     [k \in {"title"} |-> TitleT],
     [k \in {"title", "content"} |-> IF k = "title" THEN TitleT ELSE ContentC],
     [k \in {"title", "content", "image"} |->
        CASE k = "title" -> TitleT [] k = "content" -> ContentC [] OTHER -> ImageI]}

FullNews ==
    [k \in {"title", "content"} |-> IF k = "title" THEN TitleT ELSE ContentC]

\* find().sort("date", -1): the orders in which the query may return the
\* items, the order of items with the same date being open.
NewsNewer(n, m) == n.date >= m.date
SortNews(coll) ==
    {seq \in [1..Cardinality(coll) -> coll] :
        /\ \A i, j \in DOMAIN seq : i < j => seq[i] # seq[j] /\ NewsNewer(seq[i], seq[j])}
\* strftime("%B %d, %Y"): the day
news_date(t) == t \div DayLen

\* The handler has one store call, the read of the cursor.
get_news_result(sorted, okFind) ==
    IF ~okFind THEN Plain(500, Message("error"), 1)
    ELSE Plain(200, [i \in 1..Len(sorted) |->
                        [id |-> sorted[i].id, title |-> sorted[i].title,
                         content |-> sorted[i].content, image |-> sorted[i].image,
                         date |-> news_date(sorted[i].date)]], 1)

get_news ==
    /\ last = NoObs
    /\ \E okFind \in Outcomes, sorted \in SortNews(news) :
         last' = Obs("news", AbsentHeader, NoArg, 0, NoLocal,
                     get_news_result(sorted, okFind))
    /\ UNCHANGED <<now, indexes, volunteers, news, audit_logs, nextId,
                   nextNewsId, client, pc, local, faults, listed>>

\* The validation and insert_one.
add_news_insert(data, okInsert) ==
    IF data = EmptyBody \/ Blank(data, "title") \/ Blank(data, "content")
    THEN Plain(400, Message("Missing title or content"), 0)
    ELSE IF ~okInsert THEN Plain(500, Message("error"), 1)
    ELSE [Plain(0, NoArg, 1)
            EXCEPT !.news = news \cup
                      {[id |-> nextNewsId, title |-> data["title"],
                        content |-> data["content"], date |-> now,
                        image |-> Get(data, "image", EmptyText)]}]

add_news_begin(s, header, data) ==
    /\ last = NoObs
    /\ Free(s)
    /\ Room
    /\ \E okInsert \in Outcomes :
         LET r == Protected(header, add_news_insert(data, okInsert)) IN
         /\ news' = r.news
         /\ nextNewsId' = IF r.code = 0 THEN nextNewsId + 1 ELSE nextNewsId
         /\ last' = Obs("add_news", header, [data |-> data], s, NoLocal, r)
         /\ Goes(s, r, "add_news_audit", [NoLocal EXCEPT !.arg = [data |-> data]])
    /\ UNCHANGED <<now, indexes, volunteers, audit_logs, nextId, client, faults,
                   listed>>
    /\ Bounded'

\* log_audit, and the response.
add_news_audit(loc, okAudit) ==
    IF AuditRaises(okAudit)
    THEN [Plain(500, Message("error"), 2) EXCEPT !.auditFailed = TRUE]
    ELSE [Plain(201, Message("News added successfully"), 2)
            EXCEPT !.audited = okAudit, !.auditFailed = ~okAudit,
                   !.logs = log_audit(audit_logs, "ADD_NEWS",
                                      loc.arg.data["title"], now, okAudit)]

add_news_finish(s) ==
    /\ last = NoObs
    /\ pc[s] = "add_news_audit"
    /\ \E okAudit \in Outcomes :
         LET r == add_news_audit(local[s], okAudit) IN
         /\ audit_logs' = r.logs
         /\ last' = Obs("add_news_done", AbsentHeader, local[s].arg, s, local[s], r)
    /\ Ends(s)
    /\ UNCHANGED <<now, indexes, volunteers, news, nextId, nextNewsId, client,
                   faults, listed>>

NewsIdArgs == {BadId} \cup {HexId(n) : n \in 1..MaxNews}

\* ObjectId(id) and delete_one.
delete_news_delete(id, okDelete) ==
    IF ~ObjectIdParses(id) THEN Plain(500, Message("error"), 0)
    ELSE IF ~okDelete THEN Plain(500, Message("error"), 1)
    ELSE IF \E n \in news : n.id = id.oid
    THEN [Plain(0, NoArg, 1) EXCEPT !.news = {n \in news : n.id # id.oid}]
    ELSE Plain(404, Message("News item not found"), 1)

delete_news_begin(s, header, id) ==
    /\ last = NoObs
    /\ Free(s)
    /\ Room
    /\ \E okDelete \in Outcomes :
         LET r == Protected(header, delete_news_delete(id, okDelete)) IN
         /\ news' = r.news
         /\ last' = Obs("delete_news", header, [id |-> id], s, NoLocal, r)
         /\ Goes(s, r, "delete_news_audit", [NoLocal EXCEPT !.arg = [id |-> id]])
    /\ UNCHANGED <<now, indexes, volunteers, audit_logs, nextId, nextNewsId,
                   client, faults, listed>>

\* deleted_count was 1: log_audit, and the response.
delete_news_audit(loc, okAudit) ==
    IF AuditRaises(okAudit)
    THEN [Plain(500, Message("error"), 2) EXCEPT !.auditFailed = TRUE]
    ELSE [Plain(200, Message("News deleted"), 2)
            EXCEPT !.audited = okAudit, !.auditFailed = ~okAudit,
                   !.logs = log_audit(audit_logs, "DELETE_NEWS",
                                      <<"news", loc.arg.id.oid>>, now, okAudit)]

delete_news_finish(s) ==
    /\ last = NoObs
    /\ pc[s] = "delete_news_audit"
    /\ \E okAudit \in Outcomes :
         LET r == delete_news_audit(local[s], okAudit) IN
         /\ audit_logs' = r.logs
         /\ last' = Obs("delete_news_done", AbsentHeader, local[s].arg, s, local[s], r)
    /\ Ends(s)
    /\ UNCHANGED <<now, indexes, volunteers, news, nextId, nextNewsId, client,
                   faults, listed>>

\* ------------------------------------------------- specifications
\* Each specification is the program under one workload: the requests its
\* clients send.  The handlers are the same in all of them.
Held == Bearer(client.token)

\* The registration workload: registrations of every kind of body, and an
\* admin who logs in and deletes.
Next ==
    \/ Tick(EarlyInstants)
    \/ Deliver
    \/ admin_login(GoodLogin)
    \/ \E data \in RegisterBodies : register_volunteer(data)
    \/ \E s \in Slots, id \in IdArgs : delete_volunteer_begin(s, Held, id)
    \/ \E s \in Slots : delete_volunteer_finish(s)

\* No request is in flight at position p.
NoneAt(p) == \A s \in Slots : pc[s] # p

\* The listing workload: registrations, and an admin who logs in, deletes,
\* and lists one page at a time.
NextList ==
    \/ Tick(EarlyInstants)
    \/ Deliver
    \/ admin_login(GoodLogin)
    \/ \E data \in DistinctBodies : register_volunteer(data)
    \/ \E s \in Slots, id \in IdArgs : delete_volunteer_begin(s, Held, id)
    \/ \E s \in Slots : delete_volunteer_finish(s)
    \/ \E s \in Slots, a \in ListArgs :
          NoneAt("list_find") /\ get_volunteers_begin(s, Held, a)
    \/ \E s \in Slots : get_volunteers_finish(s)

\* The export workload: registrations, and an admin who logs in, deletes
\* and exports.
NextExport ==
    \/ Tick(EarlyInstants)
    \/ Deliver
    \/ admin_login(GoodLogin)
    \/ \E data \in DistinctBodies : register_volunteer(data)
    \/ \E s \in Slots, id \in IdArgs : delete_volunteer_begin(s, Held, id)
    \/ \E s \in Slots : delete_volunteer_finish(s)
    \/ \E s \in Slots : export_volunteers_begin(s, Held)
    \/ \E s \in Slots : export_volunteers_finish(s)

\* The statistics workload: the two counts of get_stats, with
\* registrations and deletions between them.
NextStats ==
    \/ Tick(EarlyInstants)
    \/ Deliver
    \/ admin_login(GoodLogin)
    \/ \E data \in DistinctBodies : register_volunteer(data)
    \/ \E s \in Slots, id \in IdArgs : delete_volunteer_begin(s, Held, id)
    \/ \E s \in Slots : delete_volunteer_finish(s)
    \/ \E s \in Slots : get_stats_begin(s, Held)
    \/ \E s \in Slots : get_stats_finish(s)

\* No request is between its two store calls.
Quiet == \A s \in Slots : pc[s] = "idle"

\* The authorization workload: every protected route with every header,
\* one request at a time, while tokens are issued and expire.
NextAuth ==
    \/ Tick(Instants)
    \/ Deliver
    \/ \E data \in LoginBodies : admin_login(data)
    \/ register_volunteer(FullBody(EmailA, Phone10))
    \/ \E s \in Slots, h \in Headers : Quiet /\ get_stats_begin(s, h)
    \/ \E s \in Slots : get_stats_finish(s)
    \/ \E s \in Slots, h \in Headers : Quiet /\ export_volunteers_begin(s, h)
    \/ \E s \in Slots : export_volunteers_finish(s)
    \/ \E s \in Slots, h \in Headers : Quiet /\ delete_volunteer_begin(s, h, HexId(1))
    \/ \E s \in Slots : delete_volunteer_finish(s)
    \/ \E s \in Slots, h \in Headers : Quiet /\ get_volunteers_begin(s, h, ListDefault)
    \/ \E s \in Slots : get_volunteers_finish(s)
    \/ \E s \in Slots, h \in Headers : Quiet /\ add_news_begin(s, h, FullNews)
    \/ \E s \in Slots : add_news_finish(s)
    \/ \E s \in Slots, h \in Headers : Quiet /\ delete_news_begin(s, h, HexId(1))
    \/ \E s \in Slots : delete_news_finish(s)

\* The audit workload: every audited route at one instant, in a run where
\* store calls may raise.
NextAudit ==
    \/ Deliver
    \/ \E data \in LoginBodies : client.token = EmptyTok /\ admin_login(data)
    \/ register_volunteer(FullBody(EmailA, Phone10))
    \/ \E s \in Slots : export_volunteers_begin(s, Held)
    \/ \E s \in Slots : export_volunteers_finish(s)
    \/ \E s \in Slots, id \in IdArgs : delete_volunteer_begin(s, Held, id)
    \/ \E s \in Slots : delete_volunteer_finish(s)
    \/ get_news
    \/ \E s \in Slots, data \in NewsBodies : add_news_begin(s, Held, data)
    \/ \E s \in Slots : add_news_finish(s)
    \/ \E s \in Slots, id \in NewsIdArgs : delete_news_begin(s, Held, id)
    \/ \E s \in Slots : delete_news_finish(s)

Spec == Init /\ [][Next]_vars
SpecList == Init /\ [][NextList]_vars
SpecExport == Init /\ [][NextExport]_vars
SpecStats == Init /\ [][NextStats]_vars
SpecAuth == Init /\ [][NextAuth]_vars
SpecAudit == InitFault /\ [][NextAudit]_vars

\* ---------------------------------------------------------- claims
ProtectedRoutes == {"stats", "export", "delete", "list", "add_news", "delete_news"}
Ids(coll) == {v.id : v \in coll}
RequiredFields == {"name", "email", "phone"}
Complete(data) == RequiredFields \subseteq DOMAIN data

\* The shapes the specification asks of a registration's email and phone.
Positions(s, c) == {i \in 1..Len(s) : s[i] = c}
EmailShape(e) ==
    /\ Cardinality(Positions(e, "@")) = 1
    /\ \E i \in Positions(e, "@") :
          /\ i > 1
          /\ \E j \in Positions(e, ".") : j > i + 1 /\ j < Len(e)
Digits == {"0", "1", "2", "3", "4", "5", "6", "7", "8", "9"}
PhoneShape(ph) == Len(ph) \in {10, 12} /\ \A i \in 1..Len(ph) : ph[i] \in Digits

C2_Validated ==
    (last.route = "register" /\ Complete(last.arg.data)
       /\ (~EmailShape(last.arg.data["email"]) \/ ~PhoneShape(last.arg.data["phone"])))
    => (last.code = 400 /\ volunteers = last.before.volunteers)

\* The token a header carries is signed by the server and not yet expired at t.
TokenGood(header, t) ==
    /\ header.scheme = "Bearer"
    /\ header.token.fmt = "jwt"
    /\ header.token.sig
    /\ t < header.token.exp * UnitsPerSecond

\* C3: a request to a protected route with a missing, expired or invalid
\* bearer token is answered 401 and makes no store call: the three
\* collections are as they were, and the request does not go on.
C3_NoStoreOn401 ==
    (last.route \in ProtectedRoutes /\ ~TokenGood(last.header, last.at))
    => /\ last.code = 401 /\ last.ops = 0 /\ Store = last.before
       /\ pc[last.slot] = "idle"

\* C3's case: an expired token refused on the delete route while the record
\* it names exists.
C3_Witness ==
    /\ last.route = "delete" /\ last.code = 401
    /\ last.header.token.sig
    /\ \E v \in volunteers : v.id = last.arg.id.oid

\* The token the client holds was issued by a login, and is the one sent.
SentIssued ==
    /\ last.route \in ProtectedRoutes
    /\ client.token.sig
    /\ last.header = Bearer(client.token)

\* C4 (as claimed): a token issued at t is accepted by every protected
\* route strictly before t + 2 hours and refused with 401 at or after it.
C4_NominalExpiry ==
    SentIssued =>
       ((last.at < client.issued + TokenLifetime) <=> (last.code # 401))

\* The expiry the token carries: t + 2 hours cut down to a whole second.
EmbeddedExpiry(issued) ==
    ((issued + TokenLifetime) \div UnitsPerSecond) * UnitsPerSecond

\* C4 (amended): the token carries t + 2 hours cut down to the whole second;
\* it is accepted by every protected route strictly before that instant and
\* refused with 401 at or after it, whatever else has happened.
C4_EmbeddedExpiry ==
    /\ client.token.sig =>
          client.token.exp * UnitsPerSecond = EmbeddedExpiry(client.issued)
    /\ SentIssued =>
          ((last.at < EmbeddedExpiry(client.issued)) <=> (last.code # 401))

\* C4's case: a token refused although t + 2 hours has not been reached.
C4_Witness ==
    /\ SentIssued
    /\ last.code = 401
    /\ last.at < client.issued + TokenLifetime

\* C5 (as claimed): an authorized delete of an id that matches no record is
\* answered 404 and changes nothing; of an existing id it removes exactly
\* that record and is answered 200; no listing shows an id not in the store.
C5_Delete ==
    /\ (last.route = "delete" /\ last.code # 401) =>
          LET hit == {v \in last.before.volunteers :
                         last.arg.id.hex /\ v.id = last.arg.id.oid}
          IN  IF hit = {}
              THEN last.code = 404 /\ volunteers = last.before.volunteers
              ELSE /\ last.code = 0
                   /\ volunteers = last.before.volunteers \ hit
                   /\ Cardinality(volunteers)
                         = Cardinality(last.before.volunteers) - 1
    /\ last.route = "delete_done" =>
          /\ last.code = 200
          /\ last.arg.id.oid \notin Ids(volunteers)
          /\ volunteers = last.before.volunteers
    /\ (last.route = "list_done" /\ last.code = 200) =>
          \A i \in 1..Len(last.out.volunteers) :
             last.out.volunteers[i].id \in Ids(volunteers)

Ceil(n, L) == (n + L - 1) \div L
ById(coll, id) == CHOOSE v \in coll : v.id = id
Range(seq) == {seq[i] : i \in DOMAIN seq}

\* C6 (as claimed): without search text and with no write between the page
\* requests, a listing with limit L reports total_records = N, lists its
\* records newest first, lists nothing on a page beyond ceil(N/L); two
\* different pages of one limit share no id and the lower page holds the
\* newer records; and the pages 1..ceil(N/L) together hold every id (stated
\* for the listings of one page and of two pages).
C6_Pagination ==
    (last.route = "list_done" /\ last.code = 200 /\ last.arg.search = EmptyText
       /\ last.arg.page >= 1 /\ last.arg.limit >= 1
       /\ ~last.grown /\ ~last.shrunk)
    => LET N == Cardinality(volunteers)
           L == last.arg.limit
           page == last.arg.page
           here == {last.out.volunteers[i].id : i \in DOMAIN last.out.volunteers}
           there == Range(last.prev.ids)
       IN  /\ last.out.pagination.total_records = N
           /\ Len(last.out.volunteers) <= L
           /\ Cardinality(here) = Len(last.out.volunteers)
           /\ here \subseteq Ids(volunteers)
           /\ \A i, j \in DOMAIN last.out.volunteers :
                 i < j => ById(volunteers, last.out.volunteers[i].id).registered_at
                            >= ById(volunteers, last.out.volunteers[j].id).registered_at
           /\ page > Ceil(N, L) => here = {}
           /\ (Ceil(N, L) = 1 /\ page = 1) => here = Ids(volunteers)
           /\ (last.prev.limit = L /\ last.prev.page # page) =>
                 /\ here \cap there = {}
                 /\ \A a \in (IF page < last.prev.page THEN here ELSE there),
                       b \in (IF page < last.prev.page THEN there ELSE here) :
                       ById(volunteers, a).registered_at
                          >= ById(volunteers, b).registered_at
                 /\ (Ceil(N, L) = 2 /\ {page, last.prev.page} = {1, 2})
                       => here \cup there = Ids(volunteers)

\* C7 (as claimed): a request answered 400, 401, 404 or 500 has written no
\* audit entry and its answering step leaves audit_logs as it was; a
\* request that wrote an audit entry is answered with success.
C7_AuditOnlyOnSuccess ==
    /\ last.code \in {400, 401, 404, 500} =>
          (~last.audited /\ audit_logs = last.before.audit_logs)
    /\ (last.audited /\ last.code # 0) => last.code \in {200, 201}

\* What the step observed in o answers, and leaves in volunteers and news,
\* when the request's audit insert succeeds; the other store call as any.
WithAudit(o) ==
    CASE o.route = "login" ->
            {admin_login_result(o.arg.data, now, TRUE)}
      [] o.route = "export" ->
            {Protected(o.header, export_volunteers_log(TRUE))}
      [] o.route = "export_done" ->
            {export_volunteers_read(
                [local[o.slot] EXCEPT !.audited = TRUE, !.auditFailed = FALSE],
                sorted, ok)
                : sorted \in SortDesc(volunteers), ok \in BOOLEAN}
      [] o.route = "delete_done" ->
            {delete_volunteer_audit(local[o.slot], TRUE)}
      [] o.route = "add_news_done" ->
            {add_news_audit(local[o.slot], TRUE)}
      [] o.route = "delete_news_done" ->
            {delete_news_audit(local[o.slot], TRUE)}
      [] OTHER -> {}

\* C8: a step of a request whose audit insert failed answers (or goes on)
\* exactly as, with the same store calls as, and leaves volunteers and news
\* exactly as, the same step with the audit insert succeeded.
C8_AuditFailureHidden ==
    [][last'.auditFailed =>
          \E r \in WithAudit(last') :
             /\ r.code = last'.code
             /\ r.out = last'.out
             /\ r.ops = last'.ops
             /\ r.volunteers = volunteers'
             /\ r.news = news']_vars

\* C8's case: a volunteer deleted, and the deletion answered 200, while the
\* audit insert failed.
C8_Witness ==
    /\ last.route = "delete_done" /\ last.auditFailed /\ last.code = 200
    /\ last.arg.id.oid \notin Ids(volunteers)
    /\ audit_logs = last.before.audit_logs

\* C9: an authorized export answers one header row (Registered At, Name,
\* Email, Phone, Message) and one row per record of the store at its read,
\* newest registration first, and changes no record.
C9_Export ==
    /\ last.route \in {"export", "export_done"} =>
          volunteers = last.before.volunteers
    /\ (last.route = "export_done" /\ last.code = 200) =>
          LET rows == last.out.rows IN
          /\ last.out.header = <<"Registered At", "Name", "Email", "Phone", "Message">>
          /\ Len(rows) = Cardinality(volunteers)
          /\ \A v \in volunteers :
                Cardinality({i \in 1..Len(rows) :
                    rows[i] = <<v.registered_at \div UnitsPerSecond, v.name,
                                v.email, v.phone, v.message>>}) = 1
          /\ \A v, w \in volunteers :
                v.registered_at > w.registered_at =>
                   \E i, j \in 1..Len(rows) :
                      i < j /\ rows[i][3] = v.email /\ rows[j][3] = w.email

\* C9's case: an export of three records registered at different instants.
C9_Witness ==
    /\ last.route = "export_done" /\ last.code = 200
    /\ Len(last.out.rows) = 3
    /\ \E v, w \in volunteers : v.registered_at # w.registered_at

\* C10 (as claimed): every successful stats response has today <= total.
C10_TodayWithinTotal ==
    (last.route = "stats_done" /\ last.code = 200)
       => last.out.today <= last.out.total

\* C10 (amended): today <= total when no registration was inserted between
\* the two counts; in every case today is at most the number of records in
\* the store at the second count.
C10_TodayWithinStore ==
    (last.route = "stats_done" /\ last.code = 200) =>
       /\ ~last.grown => last.out.today <= last.out.total
       /\ last.out.today <= Cardinality(volunteers)

\* C10's case: no registration between the counts, records of yesterday and
\* of today in the store.
C10_Witness ==
    /\ last.route = "stats_done" /\ last.code = 200
    /\ ~last.grown
    /\ last.out.today >= 1
    /\ last.out.today < last.out.total
====
